---- MODULE Spec2Model ----
(***************************************************************************)
(* A model of the Collections-C chained hash table (src/src/hashtable.c).  *)
(*                                                                         *)
(* The heap is explicit: table entries live at addresses 1..n (one block  *)
(* per key in use) and are linked by their next fields, the bucket array   *)
(* is a sequence of                                                        *)
(* chain heads, and 0 is the NULL pointer.  A machine word (size_t,        *)
(* uint64_t of the 64-bit build) is a tuple of eight 8-bit limbs, least    *)
(* significant first, so that the digests are computed as the code         *)
(* computes them, modulo 2^64.                                             *)
(***************************************************************************)
EXTENDS Integers, Sequences, FiniteSets, TLC

(***************************************************************************)
(* Bounds of the model.                                                    *)
(***************************************************************************)
\* number of ordinary (non-NULL) keys the caller uses, taken from the pool
NumKeys == 3
\* number of keys the caller of a default table inserts
NumDefaultKeys == 13
\* number of distinct non-NULL values the caller stores: 1..NumVals
NumVals == 2
\* the key lengths handed to hashtable_hash_ptr run from -5 to MaxPtrLen
MaxPtrLen == 12

\* the advances one iterator pass is followed for: a pass over NumKeys ordinary
\* keys and the NULL key ends before the bound, a pass through garbage may not
MaxAdvances == 5
\* the callers that choose a load factor pass capacity hints 1..MaxInitialCapacity
MaxInitialCapacity == 4
\* the strings handed to hashtable_hash_string have at most MaxStrLen bytes
MaxStrLen == 3
\* the capacity hints callers pass run from 0 to MAX_POW_TWO + NumHintsOver
NumHintsOver == 2

(***************************************************************************)
(* Machine words.                                                          *)
(***************************************************************************)
NULL == 0

RECURSIVE Pow2(_)
Pow2(n) == IF n = 0 THEN 1 ELSE 2 * Pow2(n - 1)

\* bitwise operators of C on naturals below 2^31
RECURSIVE BitXor(_, _)
BitXor(a, b) ==
    IF a = 0 THEN b
    ELSE IF b = 0 THEN a
    ELSE (((a % 2) + (b % 2)) % 2) + 2 * BitXor(a \div 2, b \div 2)

RECURSIVE BitAnd(_, _)
BitAnd(a, b) ==
    IF a = 0 \/ b = 0 THEN 0
    ELSE ((a % 2) * (b % 2)) + 2 * BitAnd(a \div 2, b \div 2)

RECURSIVE BitOr(_, _)
BitOr(a, b) ==
    IF a = 0 THEN b
    ELSE IF b = 0 THEN a
    ELSE (IF (a % 2) = 1 \/ (b % 2) = 1 THEN 1 ELSE 0) + 2 * BitOr(a \div 2, b \div 2)

\* In the definitions below, CHOOSE r \in {F(v) : v \in {e}} : TRUE is F(e): it
\* has TLC compute e once, before F, as the C code computes a value before it
\* uses it.

\* the word whose value is the natural n (n below 2^31)
WordOf(n) ==
    <<n % 256, (n \div 256) % 256, (n \div 65536) % 256, (n \div 16777216) % 256,
      0, 0, 0, 0>>

\* the conversion of a C int (possibly negative) to a word: two's complement
WordOfInt(n) ==
    IF n >= 0 THEN WordOf(n)
    ELSE LET w == WordOf((-n) - 1)
         IN  <<255 - w[1], 255 - w[2], 255 - w[3], 255 - w[4],
               255 - w[5], 255 - w[6], 255 - w[7], 255 - w[8]>>

\* the low 24 bits of a word, as a natural
WordLow(w) == w[1] + 256 * w[2] + 65536 * w[3]

WordXor(a, b) ==
    <<BitXor(a[1], b[1]), BitXor(a[2], b[2]), BitXor(a[3], b[3]), BitXor(a[4], b[4]),
      BitXor(a[5], b[5]), BitXor(a[6], b[6]), BitXor(a[7], b[7]), BitXor(a[8], b[8])>>

\* a + b modulo 2^64: ripple carry over the limbs
RECURSIVE AddCarry(_, _, _, _)
AddCarry(a, b, i, c) ==
    IF i > 8 THEN <<>>
    ELSE <<(a[i] + b[i] + c) % 256>>
         \o AddCarry(a, b, i + 1, (a[i] + b[i] + c) \div 256)

WordAdd(a, b) == AddCarry(a, b, 1, 0)

\* a * b modulo 2^64: schoolbook multiplication, column by column
RECURSIVE ColumnSum(_, _, _, _)
ColumnSum(a, b, col, j) ==
    IF j > col THEN 0
    ELSE a[j] * b[col - j + 1] + ColumnSum(a, b, col, j + 1)

RECURSIVE MulCarry(_, _, _, _)
MulCarry(a, b, col, c) ==
    IF col > 8 THEN <<>>
    ELSE LET s == ColumnSum(a, b, col, 1) + c
         IN  <<s % 256>> \o MulCarry(a, b, col + 1, s \div 256)

WordMul(a, b) == MulCarry(a, b, 1, 0)

\* limb j of w, 0 outside the word
LimbAt(w, j) == IF j >= 1 /\ j <= 8 THEN w[j] ELSE 0

\* limb i of w << r and of w >> r (0 <= r < 64): r = 8*q + s shifts by q whole
\* limbs and s bits
ShlLimb(w, i, q, s) ==
    ((LimbAt(w, i - q) * Pow2(s)) % 256) + (LimbAt(w, i - q - 1) \div Pow2(8 - s))

ShrLimb(w, i, q, s) ==
    (LimbAt(w, i + q) \div Pow2(s)) + ((LimbAt(w, i + q + 1) * Pow2(8 - s)) % 256)

WordShl(w, r) ==
    LET q == r \div 8
        s == r % 8
    IN  <<ShlLimb(w, 1, q, s), ShlLimb(w, 2, q, s), ShlLimb(w, 3, q, s), ShlLimb(w, 4, q, s),
          ShlLimb(w, 5, q, s), ShlLimb(w, 6, q, s), ShlLimb(w, 7, q, s), ShlLimb(w, 8, q, s)>>

WordShr(w, r) ==
    LET q == r \div 8
        s == r % 8
    IN  <<ShrLimb(w, 1, q, s), ShrLimb(w, 2, q, s), ShrLimb(w, 3, q, s), ShrLimb(w, 4, q, s),
          ShrLimb(w, 5, q, s), ShrLimb(w, 6, q, s), ShrLimb(w, 7, q, s), ShrLimb(w, 8, q, s)>>

WordOr(a, b) ==
    <<BitOr(a[1], b[1]), BitOr(a[2], b[2]), BitOr(a[3], b[3]), BitOr(a[4], b[4]),
      BitOr(a[5], b[5]), BitOr(a[6], b[6]), BitOr(a[7], b[7]), BitOr(a[8], b[8])>>

\* ROTL64(x, r): (x << r) | (x >> (64 - r)), 0 < r < 64
rotl64(x, r) == WordOr(WordShl(x, r), WordShr(x, 64 - r))

(***************************************************************************)
(* The bundled digests (64-bit build).                                     *)
(***************************************************************************)
\* hashtable_hash_string: mem is the key's bytes followed by the NUL.  The
\* loop tests *str, steps str, and only then folds *str in: the byte folded
\* in is the one after the byte tested.  str points to char, which is signed
\* in this build: *str is promoted to int and converted to size_t, so a byte
\* of 0x80 or more is folded in sign-extended.
StringStep(hash, byte) ==
    WordXor(WordAdd(WordShl(hash, 5), hash),
            WordOfInt(IF byte >= 128 THEN byte - 256 ELSE byte))

RECURSIVE HashStringLoop(_, _, _)
HashStringLoop(mem, pos, hash) ==
    IF mem[pos] = 0 THEN hash
    ELSE CHOOSE r \in {HashStringLoop(mem, pos + 1, next) :
                           next \in {StringStep(hash, mem[pos + 1])}} : TRUE

hashtable_hash_string(str, len, seed) ==
    HashStringLoop(str \o <<0>>, 1, WordOf(5381))

\* 0xff51afd7ed558ccd, 0xc4ceb9fe1a85ec53, 0x87c37b91114253d5, 0x4cf5ad432745937f
FMIX_A == <<205, 140, 85, 237, 215, 175, 81, 255>>
FMIX_B == <<83, 236, 133, 26, 254, 185, 206, 196>>
MURMUR_C1 == <<213, 83, 66, 17, 145, 123, 195, 135>>
MURMUR_C2 == <<127, 147, 69, 39, 67, 173, 245, 76>>

\* k ^= k >> 33
XorShr33(k) == WordXor(k, WordShr(k, 33))

fmix64(k) == XorShr33(WordMul(XorShr33(WordMul(XorShr33(k), FMIX_A)), FMIX_B))

\* k1 *= c1; k1 = ROTL64(k1,31); k1 *= c2  and  k2 *= c2; k2 = ROTL64(k2,33); k2 *= c1
MixK1(k1) == WordMul(rotl64(WordMul(k1, MURMUR_C1), 31), MURMUR_C2)
MixK2(k2) == WordMul(rotl64(WordMul(k2, MURMUR_C2), 33), MURMUR_C1)

\* h1 ^= k1; h1 = ROTL64(h1,27); h1 += h2; h1 = h1 * 5 + 0x52dce729
MixH1(h1, h2, k1) ==
    WordAdd(WordMul(WordAdd(rotl64(WordXor(h1, MixK1(k1)), 27), h2), WordOf(5)),
            WordOf(1390208809))

\* h2 ^= k2; h2 = ROTL64(h2,31); h2 += h1; h2 = h2 * 5 + 0x38495ab5
MixH2(h1, h2, k2) ==
    WordAdd(WordMul(WordAdd(rotl64(WordXor(h2, MixK2(k2)), 31), h1), WordOf(5)),
            WordOf(944331445))

\* one round of the block loop of hashtable_hash_ptr on h = <<h1, h2>>, with
\* k1 = (key >> (2 * i)) & 0xff and k2 = ROTL64(k1, 13)
BlockH2(h1, h2, k1) == <<h1, MixH2(h1, h2, rotl64(k1, 13))>>

BlockH1(h, k1) ==
    CHOOSE r \in {BlockH2(h1, h[2], k1) : h1 \in {MixH1(h[1], h[2], k1)}} : TRUE

\* a block loop that takes byte i of the address as block i
HashPtrBlockBytes(key, i, h) == BlockH1(h, WordOf((key \div Pow2(8 * i)) % 256))

HashPtrBlock(key, i, h) == BlockH1(h, WordOf((key \div Pow2(2 * i)) % 256))

RECURSIVE HashPtrLoop(_, _, _, _)
HashPtrLoop(key, i, nblocks, h) ==
    IF i >= nblocks THEN h
    ELSE CHOOSE r \in {HashPtrLoop(key, i + 1, nblocks, next) :
                           next \in {HashPtrBlock(key, i, h)}} : TRUE

\* h1 = fmix64(h1); h2 = fmix64(h2); h1 += h2; return h1
Finish3(h1, h2) ==
    CHOOSE r \in {WordAdd(f1, f2) : f1 \in {fmix64(h1)}, f2 \in {fmix64(h2)}} : TRUE

\* h1 += h2; h2 += h1
Finish2(h1, h2) ==
    CHOOSE r \in {Finish3(h1, h2b) : h2b \in {WordAdd(h2, h1)}} : TRUE

Finish1(h1, h2) ==
    CHOOSE r \in {Finish2(h1b, h2) : h1b \in {WordAdd(h1, h2)}} : TRUE

\* h1 ^= len; h2 ^= len
Finish(h, len) == Finish1(WordXor(h[1], WordOfInt(len)), WordXor(h[2], WordOfInt(len)))

\* hashtable_hash_ptr (64-bit build): key is the numeric address; len / 4
\* truncates toward zero
hashtable_hash_ptr(key, len, seed) ==
    Finish(HashPtrLoop(key, 0, IF len >= 0 THEN len \div 4 ELSE -((-len) \div 4),
                       <<WordOf(seed), WordOf(seed)>>),
           len)

(***************************************************************************)
(* Keys and configurations.                                                *)
(*                                                                         *)
(* A key is a pointer: a numeric address.  Key number i of the pool lives  *)
(* at address 8*i and points to the NUL-terminated string PoolStr(i):      *)
(* "ae", "be" (one string digest, a multiple of 64: bucket 0 at every      *)
(* capacity of the model), "aa" (bucket 0 up to capacity 4), then "xb",    *)
(* "xc", ... (digests that differ in their low four bits).                 *)
(***************************************************************************)
PoolAddr(i) == 8 * i
PoolStr(i) ==
    IF i = 1 THEN <<97, 101>>
    ELSE IF i = 2 THEN <<98, 101>>
    ELSE IF i = 3 THEN <<97, 97>>
    ELSE <<120, 94 + i>>

\* the string a key address points to
StrAt(key) == PoolStr(key \div 8)

\* hashtable.h (not part of the sources at hand): the capacity limit, scaled
\* down so that the model reaches it, and the key length sentinels
MAX_POW_TWO == 32
KEY_LENGTH_VARIABLE == -1
KEY_LENGTH_POINTER == 8

DEFAULT_CAPACITY == 16
\* 0.75f as a fraction <<numerator, denominator>>
DEFAULT_LOAD_FACTOR == <<3, 4>>

\* hashtable_conf_init
hashtable_conf_init ==
    [hash             |-> "STRING_HASH",
     key_compare      |-> "CMP_STRING",
     initial_capacity |-> DEFAULT_CAPACITY,
     load_factor      |-> DEFAULT_LOAD_FACTOR,
     key_length       |-> KEY_LENGTH_VARIABLE,
     hash_seed        |-> 0]

\* the configurations the caller creates tables with: string keys with a
\* small capacity hint, and pointer-identity keys with load factor 0.5
StringConf ==
    [hashtable_conf_init EXCEPT !.initial_capacity = 2]

PointerConf ==
    [hashtable_conf_init EXCEPT !.hash = "POINTER_HASH",
                                !.key_compare = "CMP_POINTER",
                                !.key_length = KEY_LENGTH_POINTER,
                                !.initial_capacity = 2,
                                !.load_factor = <<1, 2>>]

Confs == {StringConf, PointerConf}

\* string keys in a table that starts with one bucket and load factor 0.2:
\* its threshold is 0 up to capacity 4
LoadConf ==
    [hashtable_conf_init EXCEPT !.initial_capacity = 1, !.load_factor = <<1, 5>>]

\* the keys and values of the callers
Keys == {PoolAddr(i) : i \in 1..NumKeys}

\* pointer keys in a table that starts with one bucket and load factor 0.2:
\* every insert grows it up to capacity 8
GrowConf ==
    [PointerConf EXCEPT !.initial_capacity = 1, !.load_factor = <<1, 5>>]

\* pointer keys in a table of capacity 16 and load factor 1/16: its threshold
\* is 1, then 2 at capacity MAX_POW_TWO, which three entries reach
MaxConf ==
    [PointerConf EXCEPT !.initial_capacity = MAX_POW_TWO \div 2, !.load_factor = <<1, 16>>]

DefaultKeys == {PoolAddr(i) : i \in 1..NumDefaultKeys}
AllKeys == Keys \cup {NULL}
Vals == 1..NumVals

\* the digest the configured hash function returns for a non-NULL key, or for
\* NULL under the pointer digest (which does not dereference the key)
ComputeHash(hash, key, len, seed) ==
    IF hash = "STRING_HASH" THEN hashtable_hash_string(StrAt(key), len, seed)
    ELSE hashtable_hash_ptr(key, len, seed)

\* the digests of the keys in use, computed once per hash configuration
DigestCache ==
    [c \in {<<cf.hash, cf.key_length, cf.hash_seed>> :
                cf \in Confs \cup {LoadConf, hashtable_conf_init}} |->
        [key \in (IF c[1] = "STRING_HASH" THEN Keys \cup DefaultKeys ELSE AllKeys) |->
            ComputeHash(c[1], key, c[2], c[3])]]

\* table->hash(key, table->key_len, table->hash_seed)
table_hash(t, key) == DigestCache[<<t.hash, t.key_len, t.hash_seed>>][key]

\* table->hash dereferences a NULL key under the string digest
HashFaults(t, key) == t.hash = "STRING_HASH" /\ key = NULL

\* table->key_cmp(k1, k2); strcmp dereferences both arguments
CmpFaults(t, k1, k2) == t.key_cmp = "CMP_STRING" /\ (k1 = NULL \/ k2 = NULL)

hashtable_string_key_cmp(key1, key2) == StrAt(key1) = StrAt(key2)

hashtable_pointer_key_cmp(key1, key2) == key1 = key2

key_cmp(t, k1, k2) ==
    IF t.key_cmp = "CMP_STRING" THEN hashtable_string_key_cmp(k1, k2)
    ELSE hashtable_pointer_key_cmp(k1, k2)

(***************************************************************************)
(* The heap of table entries.                                              *)
(***************************************************************************)
FreeEntry == [live |-> FALSE, key |-> NULL, value |-> NULL, hash |-> WordOf(0), next |-> NULL]

\* mem_alloc(sizeof(TableEntry)): a free address, NULL when the allocator
\* fails.  Which free block an allocator hands out is its own business; this
\* one prefers the block numbered after the key the entry is for (so that
\* tables that differ only in their addresses are one state) and falls back
\* to the lowest free block.
mem_alloc(h, ok, key) ==
    LET want == (key \div 8) + 1
    IN  IF ~ok \/ \A a \in DOMAIN h : h[a].live THEN NULL
        ELSE IF want \in DOMAIN h /\ ~h[want].live THEN want
        ELSE CHOOSE a \in DOMAIN h : ~h[a].live /\ \A b \in DOMAIN h : ~h[b].live => a <= b

mem_free(h, e) == [h EXCEPT ![e] = FreeEntry]

(***************************************************************************)
(* Creation.                                                               *)
(***************************************************************************)
\* a round_pow_two without the n-- that keeps exact powers of two
round_pow_two_no_decrement(n) ==
    IF n >= MAX_POW_TWO THEN MAX_POW_TWO
    ELSE IF n = 0 THEN 2
    ELSE LET n1 == BitOr(n, n \div 2)
             n2 == BitOr(n1, n1 \div 4)
             n3 == BitOr(n2, n2 \div 16)
             n4 == BitOr(n3, n3 \div 256)
             n5 == BitOr(n4, n4 \div 65536)
         IN  n5 + 1

round_pow_two(n) ==
    IF n >= MAX_POW_TWO THEN MAX_POW_TWO
    ELSE IF n = 0 THEN 2
    ELSE LET n0 == n - 1
             n1 == BitOr(n0, n0 \div 2)
             n2 == BitOr(n1, n1 \div 4)
             n3 == BitOr(n2, n2 \div 16)
             n4 == BitOr(n3, n3 \div 256)
             n5 == BitOr(n4, n4 \div 65536)
         IN  n5 + 1

\* capacity * load_factor, converted to size_t: truncated
Threshold(capacity, load_factor) == (capacity * load_factor[1]) \div load_factor[2]

hashtable_new_conf(conf) ==
    LET capacity == round_pow_two(conf.initial_capacity)
    IN  [hash        |-> conf.hash,
         key_cmp     |-> conf.key_compare,
         load_factor |-> conf.load_factor,
         capacity    |-> capacity,
         hash_seed   |-> conf.hash_seed,
         key_len     |-> conf.key_length,
         size        |-> 0,
         buckets     |-> [i \in 1..capacity |-> NULL],
         threshold   |-> Threshold(capacity, conf.load_factor)]

hashtable_new == hashtable_new_conf(hashtable_conf_init)

\* the NULL returned in place of a table, and the NULL mem_calloc returns in
\* place of a bucket array (a bucket array has at least one element)
NoTable == [buckets |-> <<>>]
NoBuckets == <<>>

\* hashtable_new_conf with its two mem_calloc calls: NULL when the table
\* structure is not delivered; the result of the second call is stored in
\* table->buckets as it comes and the table is returned
NewConf(conf, table_ok, buckets_ok) ==
    IF ~table_ok THEN NoTable
    ELSE IF ~buckets_ok THEN [hashtable_new_conf(conf) EXCEPT !.buckets = NoBuckets]
    ELSE hashtable_new_conf(conf)

\* buckets[i] of the C code is t.buckets[i + 1]
Bucket(t, i) == t.buckets[i + 1]

\* hash & (capacity - 1)
IndexOf(hash, capacity) == BitAnd(WordLow(hash), capacity - 1)

get_table_index(t, key) == IndexOf(table_hash(t, key), t.capacity)

(***************************************************************************)
(* Growth.                                                                 *)
(***************************************************************************)
\* a move_entries that forgets to link the moved entry to the chain already in
\* the destination bucket
RECURSIVE MoveChainUnlinked(_, _, _, _)
MoveChainUnlinked(entry, dest, h, dest_size) ==
    IF entry = NULL THEN [dest |-> dest, heap |-> h]
    ELSE LET next  == h[entry].next
             index == IndexOf(h[entry].hash, dest_size)
         IN  MoveChainUnlinked(next,
                               [dest EXCEPT ![index + 1] = entry],
                               [h EXCEPT ![entry].next = NULL],
                               dest_size)

\* a move_entries that leaves every entry at the index it has in the source
\* array (half the size of the destination)
RECURSIVE MoveChainSameIndex(_, _, _, _)
MoveChainSameIndex(entry, dest, h, dest_size) ==
    IF entry = NULL THEN [dest |-> dest, heap |-> h]
    ELSE LET next  == h[entry].next
             index == IndexOf(h[entry].hash, dest_size \div 2)
         IN  MoveChainSameIndex(next,
                                [dest EXCEPT ![index + 1] = entry],
                                [h EXCEPT ![entry].next = dest[index + 1]],
                                dest_size)

\* the while loop of move_entries: relink one source chain
RECURSIVE MoveChain(_, _, _, _)
MoveChain(entry, dest, h, dest_size) ==
    IF entry = NULL THEN [dest |-> dest, heap |-> h]
    ELSE LET next  == h[entry].next
             index == IndexOf(h[entry].hash, dest_size)
         IN  MoveChain(next,
                       [dest EXCEPT ![index + 1] = entry],
                       [h EXCEPT ![entry].next = dest[index + 1]],
                       dest_size)

\* the for loop of move_entries; m holds the destination array and the heap
RECURSIVE MoveBuckets(_, _, _, _, _)
MoveBuckets(i, src_bucket, m, src_size, dest_size) ==
    IF i >= src_size THEN m
    ELSE MoveBuckets(i + 1, src_bucket,
                     MoveChain(src_bucket[i + 1], m.dest, m.heap, dest_size),
                     src_size, dest_size)

\* a move_entries whose for loop starts at the second source bucket
move_entries_from_second(src_bucket, dest_bucket, src_size, dest_size, h) ==
    MoveBuckets(1, src_bucket, [dest |-> dest_bucket, heap |-> h], src_size, dest_size)

move_entries(src_bucket, dest_bucket, src_size, dest_size, h) ==
    MoveBuckets(0, src_bucket, [dest |-> dest_bucket, heap |-> h], src_size, dest_size)

\* a resize that keeps the old threshold
ResizedStaleThreshold(t, m, new_capacity) ==
    [table |-> [t EXCEPT !.buckets   = m.dest,
                         !.capacity  = new_capacity],
     heap  |-> m.heap,
     ret   |-> 1]

\* the assignments of resize after move_entries
Resized(t, m, new_capacity) ==
    [table |-> [t EXCEPT !.buckets   = m.dest,
                         !.capacity  = new_capacity,
                         !.threshold = Threshold(new_capacity, t.load_factor)],
     heap  |-> m.heap,
     ret   |-> 1]

\* a resize that takes twice the capacity it is asked for
resize_twice(t, h, new_capacity, calloc_ok) ==
    IF t.capacity = MAX_POW_TWO THEN [table |-> t, heap |-> h, ret |-> 0]
    ELSE IF ~calloc_ok THEN [table |-> t, heap |-> h, ret |-> 0]
    ELSE Resized(t, move_entries(t.buckets, [i \in 1..(2 * new_capacity) |-> NULL],
                                 t.capacity, 2 * new_capacity, h),
                 2 * new_capacity)

\* resize: calloc_ok tells whether mem_calloc delivers the new bucket array
resize(t, h, new_capacity, calloc_ok) ==
    IF t.capacity = MAX_POW_TWO THEN [table |-> t, heap |-> h, ret |-> 0]
    ELSE IF ~calloc_ok THEN [table |-> t, heap |-> h, ret |-> 0]
    ELSE Resized(t, move_entries(t.buckets, [i \in 1..new_capacity |-> NULL],
                                 t.capacity, new_capacity, h),
                 new_capacity)

(***************************************************************************)
(* The table operations.  Each returns the table and heap it leaves, its   *)
(* return value (a bool as 1 or 0, a pointer as an address or NULL) and    *)
(* whether it faulted on a NULL dereference.                               *)
(***************************************************************************)
Outcome(t, h, ret) == [table |-> t, heap |-> h, ret |-> ret, fault |-> FALSE]

Segfault(t, h) == [table |-> t, heap |-> h, ret |-> NULL, fault |-> TRUE]

\* the replace loop of add_null_key: the entry with the NULL key, or NULL
RECURSIVE NullKeyScan(_, _)
NullKeyScan(h, e) ==
    IF e = NULL THEN NULL
    ELSE IF h[e].key = NULL THEN e
    ELSE NullKeyScan(h, h[e].next)

\* an add_null_key that counts a replaced value as a new entry
add_null_key_counting(t, h, val, alloc_ok) ==
    LET replace == NullKeyScan(h, Bucket(t, 0))
        new_entry == mem_alloc(h, alloc_ok, NULL)
    IN  IF replace # NULL
        THEN Outcome([t EXCEPT !.size = t.size + 1], [h EXCEPT ![replace].value = val], 1)
        ELSE IF new_entry = NULL THEN Outcome(t, h, 0)
        ELSE Outcome([t EXCEPT !.buckets[1] = new_entry, !.size = t.size + 1],
                     [h EXCEPT ![new_entry] =
                         [live |-> TRUE, key |-> NULL, value |-> val,
                          hash |-> WordOf(0), next |-> Bucket(t, 0)]],
                     1)

add_null_key(t, h, val, alloc_ok) ==
    LET replace == NullKeyScan(h, Bucket(t, 0))
        new_entry == mem_alloc(h, alloc_ok, NULL)
    IN  IF replace # NULL
        THEN Outcome(t, [h EXCEPT ![replace].value = val], 1)
        ELSE IF new_entry = NULL THEN Outcome(t, h, 0)
        ELSE Outcome([t EXCEPT !.buckets[1] = new_entry, !.size = t.size + 1],
                     [h EXCEPT ![new_entry] =
                         [live |-> TRUE, key |-> NULL, value |-> val,
                          hash |-> WordOf(0), next |-> Bucket(t, 0)]],
                     1)

\* the replace loop of hashtable_add: key_cmp(replace->key, key) down the chain
RECURSIVE AddScan(_, _, _, _)
AddScan(t, h, replace, key) ==
    IF replace = NULL THEN [res |-> "none", e |-> NULL]
    ELSE IF CmpFaults(t, h[replace].key, key) THEN [res |-> "fault", e |-> replace]
    ELSE IF key_cmp(t, h[replace].key, key) THEN [res |-> "found", e |-> replace]
    ELSE AddScan(t, h, h[replace].next, key)

\* hashtable_add after the growth check, for a non-NULL key
AddEntry(t, h, key, val, alloc_ok) ==
    LET hash == table_hash(t, key)
        i    == IndexOf(hash, t.capacity)
        scan == AddScan(t, h, Bucket(t, i), key)
        new_entry == mem_alloc(h, alloc_ok, key)
    IN  IF scan.res = "fault" THEN Segfault(t, h)
        ELSE IF scan.res = "found"
        THEN Outcome(t, [h EXCEPT ![scan.e].value = val], 1)
        ELSE IF new_entry = NULL THEN Outcome(t, h, 0)
        ELSE Outcome([t EXCEPT !.buckets[i + 1] = new_entry, !.size = t.size + 1],
                     [h EXCEPT ![new_entry] =
                         [live |-> TRUE, key |-> key, value |-> val,
                          hash |-> hash, next |-> Bucket(t, i)]],
                     1)

\* hashtable_add after the growth check; r holds the table and the heap
AddAfterResize(r, key, val, alloc_ok) ==
    IF key = NULL THEN add_null_key(r.table, r.heap, val, alloc_ok)
    ELSE AddEntry(r.table, r.heap, key, val, alloc_ok)

\* a hashtable_add that grows the table only once size exceeds the threshold
hashtable_add_late(t, h, key, val, alloc_ok, calloc_ok) ==
    AddAfterResize(IF t.size > t.threshold
                   THEN resize(t, h, 2 * t.capacity, calloc_ok)
                   ELSE [table |-> t, heap |-> h, ret |-> 0],
                   key, val, alloc_ok)

\* a hashtable_add that tests for the NULL key before the growth check
hashtable_add_null_first(t, h, key, val, alloc_ok, calloc_ok) ==
    AddAfterResize(IF key # NULL /\ t.size >= t.threshold
                   THEN resize(t, h, 2 * t.capacity, calloc_ok)
                   ELSE [table |-> t, heap |-> h, ret |-> 0],
                   key, val, alloc_ok)

hashtable_add(t, h, key, val, alloc_ok, calloc_ok) ==
    AddAfterResize(IF t.size >= t.threshold
                   THEN resize(t, h, 2 * t.capacity, calloc_ok)
                   ELSE [table |-> t, heap |-> h, ret |-> 0],
                   key, val, alloc_ok)

\* get_null_key
RECURSIVE get_null_key_loop(_, _)
get_null_key_loop(h, bucket) ==
    IF bucket = NULL THEN NULL
    ELSE IF h[bucket].key = NULL THEN h[bucket].value
    ELSE get_null_key_loop(h, h[bucket].next)

get_null_key(t, h) == Outcome(t, h, get_null_key_loop(h, Bucket(t, 0)))

\* the loop of hashtable_get: key_cmp(bucket->key, key) down the chain
RECURSIVE GetScan(_, _, _, _)
GetScan(t, h, bucket, key) ==
    IF bucket = NULL THEN Outcome(t, h, NULL)
    ELSE IF CmpFaults(t, h[bucket].key, key) THEN Segfault(t, h)
    ELSE IF key_cmp(t, h[bucket].key, key) THEN Outcome(t, h, h[bucket].value)
    ELSE GetScan(t, h, h[bucket].next, key)

hashtable_get(t, h, key) ==
    IF key = NULL THEN get_null_key(t, h)
    ELSE GetScan(t, h, Bucket(t, get_table_index(t, key)), key)

\* an unlink that forgets table->size--
UnlinkKeepSize(t, h, i, e, prev) ==
    LET next == h[e].next
        t1 == IF prev = NULL THEN [t EXCEPT !.buckets[i + 1] = next] ELSE t
        h1 == IF prev = NULL THEN h ELSE [h EXCEPT ![prev].next = next]
    IN  Outcome(t1, mem_free(h1, e), h[e].value)

\* unlink entry e (whose predecessor in the chain of bucket i is prev), free it
Unlink(t, h, i, e, prev) ==
    LET next == h[e].next
        t1 == IF prev = NULL THEN [t EXCEPT !.buckets[i + 1] = next] ELSE t
        h1 == IF prev = NULL THEN h ELSE [h EXCEPT ![prev].next = next]
    IN  Outcome([t1 EXCEPT !.size = t.size - 1], mem_free(h1, e), h[e].value)

\* the loop of hashtable_remove: key_cmp(key, e->key) down the chain
RECURSIVE RemoveScan(_, _, _, _, _, _)
RemoveScan(t, h, i, e, prev, key) ==
    IF e = NULL THEN Outcome(t, h, NULL)
    ELSE IF CmpFaults(t, key, h[e].key) THEN Segfault(t, h)
    ELSE IF key_cmp(t, key, h[e].key) THEN Unlink(t, h, i, e, prev)
    ELSE RemoveScan(t, h, i, h[e].next, e, key)

\* the loop of remove_null_key
RECURSIVE RemoveNullScan(_, _, _, _)
RemoveNullScan(t, h, e, prev) ==
    IF e = NULL THEN Outcome(t, h, NULL)
    ELSE IF h[e].key = NULL THEN Unlink(t, h, 0, e, prev)
    ELSE RemoveNullScan(t, h, h[e].next, e)

remove_null_key(t, h) == RemoveNullScan(t, h, Bucket(t, 0), NULL)

hashtable_remove(t, h, key) ==
    IF key = NULL THEN remove_null_key(t, h)
    ELSE RemoveScan(t, h, get_table_index(t, key), Bucket(t, get_table_index(t, key)), NULL, key)

\* the while loop of hashtable_remove_all: free one chain, size-- per entry;
\* f holds the heap and the size
RECURSIVE FreeChain(_, _)
FreeChain(f, entry) ==
    IF entry = NULL THEN f
    ELSE FreeChain([heap |-> mem_free(f.heap, entry), size |-> f.size - 1],
                   f.heap[entry].next)

\* the for loop of hashtable_remove_all
RECURSIVE RemoveAllLoop(_, _, _)
RemoveAllLoop(t, f, i) ==
    IF i >= t.capacity THEN Outcome([t EXCEPT !.size = f.size], f.heap, NULL)
    ELSE RemoveAllLoop([t EXCEPT !.buckets[i + 1] = NULL],
                       FreeChain(f, Bucket(t, i)), i + 1)

hashtable_remove_all(t, h) == RemoveAllLoop(t, [heap |-> h, size |-> t.size], 0)

\* the for loop of hashtable_destroy: free every chain with the while loop
\* hashtable_remove_all has too, here without a size to keep; h is the heap
RECURSIVE DestroyLoop(_, _, _)
DestroyLoop(t, h, i) ==
    IF i >= t.capacity THEN h
    ELSE DestroyLoop(t, FreeChain([heap |-> h, size |-> t.size], Bucket(t, i)).heap, i + 1)

\* hashtable_destroy: the entries, the bucket array and the table structure
\* are freed and no table is left; the loop reads table->buckets[0] first, a
\* NULL dereference when the bucket array is missing
hashtable_destroy(t, h) ==
    IF t.buckets = NoBuckets /\ t.capacity > 0 THEN Segfault(t, h)
    ELSE Outcome(NoTable, DestroyLoop(t, h, 0), NULL)

hashtable_size(t) == t.size

hashtable_capacity(t) == t.capacity

\* the loop of hashtable_contains_key: key_cmp(key, entry->key) down the chain
RECURSIVE ContainsScan(_, _, _, _)
ContainsScan(t, h, entry, key) ==
    IF entry = NULL THEN Outcome(t, h, 0)
    ELSE IF CmpFaults(t, key, h[entry].key) THEN Segfault(t, h)
    ELSE IF key_cmp(t, key, h[entry].key) THEN Outcome(t, h, 1)
    ELSE ContainsScan(t, h, h[entry].next, key)

\* no NULL check: the key goes to the hash function and the comparator as it is
hashtable_contains_key(t, h, key) ==
    IF HashFaults(t, key) THEN Segfault(t, h)
    ELSE ContainsScan(t, h, Bucket(t, get_table_index(t, key)), key)

\* the stored keys the loops of hashtable_add, hashtable_get, hashtable_remove
\* and hashtable_contains_key hand to table->key_cmp when they scan a chain
\* for key: every entry's key up to the first match
RECURSIVE ComparedKeys(_, _, _, _)
ComparedKeys(t, h, entry, key) ==
    IF entry = NULL THEN <<>>
    ELSE IF CmpFaults(t, h[entry].key, key) THEN <<h[entry].key>>
    ELSE IF key_cmp(t, h[entry].key, key) THEN <<h[entry].key>>
    ELSE <<h[entry].key>> \o ComparedKeys(t, h, h[entry].next, key)

\* the entries of one chain, head first
RECURSIVE Chain(_, _)
Chain(h, entry) ==
    IF entry = NULL THEN <<>> ELSE <<entry>> \o Chain(h, h[entry].next)

\* the entries in bucket-then-chain order: the traversal of hashtable_get_keys,
\* hashtable_get_values, hashtable_foreach_key and hashtable_foreach_value
RECURSIVE Traverse(_, _, _)
Traverse(t, h, i) ==
    IF i >= t.capacity THEN <<>>
    ELSE Chain(h, Bucket(t, i)) \o Traverse(t, h, i + 1)

\* the NULL that hashtable_get_keys and hashtable_get_values return when
\* array_new_conf fails
NoArray == [null |-> TRUE, elems |-> <<>>]

\* the Array hashtable_get_values fills by array_add; alloc_ok tells whether
\* array_new_conf (which uses the allocators of the table) delivers the Array
hashtable_get_values(t, h, alloc_ok) ==
    LET es == Traverse(t, h, 0)
    IN  IF ~alloc_ok THEN NoArray
        ELSE [null |-> FALSE, elems |-> [j \in 1..Len(es) |-> h[es[j]].value]]

\* the Array hashtable_get_keys fills by array_add
hashtable_get_keys(t, h, alloc_ok) ==
    LET es == Traverse(t, h, 0)
    IN  IF ~alloc_ok THEN NoArray
        ELSE [null |-> FALSE, elems |-> [j \in 1..Len(es) |-> h[es[j]].key]]

\* the keys hashtable_foreach_key hands to op, in the order of the calls
hashtable_foreach_key(t, h) ==
    LET es == Traverse(t, h, 0) IN [j \in 1..Len(es) |-> h[es[j]].key]

\* the values hashtable_foreach_value hands to op, in the order of the calls
hashtable_foreach_value(t, h) ==
    LET es == Traverse(t, h, 0) IN [j \in 1..Len(es) |-> h[es[j]].value]

(***************************************************************************)
(* The iterator.                                                           *)
(***************************************************************************)
\* what an uninitialised pointer field may hold: NULL or a wild pointer
\* an address no mapping backs: dereferencing it ends the process
WildPtr == -1

\* an address of readable memory that holds no entry of the table: the stack,
\* a block the allocator keeps, an entry some earlier call freed
ReadablePtr == -2

IndeterminatePtrs == {NULL, WildPtr, ReadablePtr}


\* a bucket_index that lies outside every bucket array
GarbageIndex == -1

\* what the caller's HashTableIter may hold before hashtable_iter_init: the
\* structure is automatic storage, or one that an earlier pass used and left
\* with an index inside the array
HeldIters ==
    [bucket_index : {0, 1, GarbageIndex}, prev_entry : IndeterminatePtrs,
     next_entry : IndeterminatePtrs]

\* the for loop of hashtable_iter_init: the first non-empty bucket from i on
RECURSIVE FirstNonEmpty(_, _)
FirstNonEmpty(t, i) ==
    IF i >= t.capacity THEN t.capacity
    ELSE IF Bucket(t, i) # NULL THEN i
    ELSE FirstNonEmpty(t, i + 1)

\* iter keeps its previous contents when every bucket is empty
hashtable_iter_init(iter, t) ==
    LET i == FirstNonEmpty(t, 0)
    IN  IF i < t.capacity
        THEN [bucket_index |-> i, next_entry |-> Bucket(t, i), prev_entry |-> NULL]
        ELSE iter

hashtable_iter_has_next(iter) == IF iter.next_entry # NULL THEN 1 ELSE 0

\* the values a call that falls off the end of hashtable_iter_next may deliver:
\* the entry (what is left in the return register), NULL or any other address
UndefinedReturn(prev) == {prev} \cup IndeterminatePtrs

\* hashtable_iter_next when iter->next_entry->next reads as next: the iterator
\* it leaves and the values it may return; it reaches no return statement when
\* no later bucket holds an entry. With a garbage bucket_index the reads of
\* table->buckets[i] lie outside the array: the loop faults, or meets a
\* non-NULL word and returns, or runs to its end.
AdvanceWith(iter, t, next) ==
    LET prev == iter.next_entry
        i    == FirstNonEmpty(t, iter.bucket_index + 1)
    IN  IF next # NULL
        THEN {[fault |-> FALSE,
               iter |-> [iter EXCEPT !.prev_entry = prev, !.next_entry = next],
               rets |-> {prev}]}
        ELSE IF iter.bucket_index = GarbageIndex
        THEN {[fault |-> TRUE, iter |-> iter, rets |-> {}]}
             \cup {[fault |-> FALSE,
                    iter |-> [iter EXCEPT !.prev_entry = prev, !.next_entry = p],
                    rets |-> {prev}] : p \in IndeterminatePtrs \ {NULL}}
             \cup {[fault |-> FALSE,
                    iter |-> [iter EXCEPT !.prev_entry = prev, !.next_entry = NULL],
                    rets |-> UndefinedReturn(prev)]}
        ELSE IF i < t.capacity
        THEN {[fault |-> FALSE,
               iter |-> [bucket_index |-> i, prev_entry |-> prev,
                         next_entry |-> Bucket(t, i)],
               rets |-> {prev}]}
        ELSE {[fault |-> FALSE,
               iter |-> [iter EXCEPT !.prev_entry = prev, !.next_entry = NULL],
               rets |-> UndefinedReturn(prev)]}

\* hashtable_iter_next: every outcome of one call. A wild next_entry faults
\* at the read of its next field; the read gives the link of an entry, and
\* whatever the memory holds when next_entry is readable but no entry.
hashtable_iter_next(iter, t, h) ==
    IF iter.next_entry = WildPtr
    THEN {[fault |-> TRUE, iter |-> iter, rets |-> {}]}
    ELSE UNION {AdvanceWith(iter, t, next) :
                    next \in (IF iter.next_entry \in DOMAIN h
                              THEN {h[iter.next_entry].next}
                              ELSE IndeterminatePtrs)}

\* hashtable_iter_remove
hashtable_iter_remove(iter, t, h) == hashtable_remove(t, h, h[iter.prev_entry].key)

(***************************************************************************)
(* The state machine.                                                      *)
(*   table, heap : the HashTable structure and the entries it links        *)
(*   iter        : the caller's HashTableIter structure                    *)
(*   pass        : history of the iteration pass under way                 *)
(*   last        : the last call, its arguments and what it returned       *)
(*   amap        : history: the mapping the successful calls describe      *)
(*   fault       : "SIGSEGV" once a call dereferenced a NULL or wild       *)
(*                 pointer; the process is gone and nothing more happens   *)
(***************************************************************************)
VARIABLES table, heap, iter, pass, last, amap, fault

vars == <<table, heap, iter, pass, last, amap, fault>>

NoIter == [bucket_index |-> 0, prev_entry |-> NULL, next_entry |-> NULL]

NoPass == [active |-> FALSE, removable |-> FALSE, yielded |-> <<>>, start |-> <<>>]

Call(op, key, val, ret, arr) == [op |-> op, key |-> key, val |-> val, ret |-> ret, arr |-> arr]

\* the state after hashtable_new_conf(conf), for a caller using keys ks
InitWith(conf, ks) ==
    /\ table = hashtable_new_conf(conf)
    /\ heap = [a \in 1..(Cardinality(ks) + 1) |-> FreeEntry]
    /\ iter = NoIter
    /\ pass = NoPass
    /\ last = Call("new", NULL, NULL, NULL, <<>>)
    /\ amap = [k \in ks \cup {NULL} |-> NULL]
    /\ fault = "none"

Init == \E conf \in Confs : InitWith(conf, Keys)

\* a call that faulted: the process stops where it is
Faulted(call) ==
    /\ fault' = "SIGSEGV"
    /\ last' = call
    /\ UNCHANGED <<table, heap, iter, pass, amap>>

\* a call that changed the table directly: an iterator in use is invalidated
\* and the caller drops it
Mutated(r, call, newmap) ==
    /\ table' = r.table
    /\ heap' = r.heap
    /\ last' = call
    /\ amap' = newmap
    /\ iter' = NoIter
    /\ pass' = NoPass
    /\ UNCHANGED fault

\* a call that only reads the table
Queried(call) ==
    /\ last' = call
    /\ UNCHANGED <<table, heap, iter, pass, amap, fault>>

Add(key, val, alloc_ok, calloc_ok) ==
    /\ fault = "none"
    /\ LET r == hashtable_add(table, heap, key, val, alloc_ok, calloc_ok)
       IN  IF r.fault THEN Faulted(Call("add", key, val, NULL, <<alloc_ok, calloc_ok>>))
           ELSE Mutated(r, Call("add", key, val, r.ret, <<alloc_ok, calloc_ok>>),
                        IF r.ret = 1 THEN [amap EXCEPT ![key] = val] ELSE amap)

Remove(key) ==
    /\ fault = "none"
    /\ LET r == hashtable_remove(table, heap, key)
       IN  IF r.fault THEN Faulted(Call("remove", key, NULL, NULL, <<>>))
           ELSE Mutated(r, Call("remove", key, NULL, r.ret, <<>>),
                        [amap EXCEPT ![key] = NULL])

RemoveAll ==
    /\ fault = "none"
    /\ Mutated(hashtable_remove_all(table, heap), Call("remove_all", NULL, NULL, NULL, <<>>),
               [k \in DOMAIN amap |-> NULL])

Get(key) ==
    /\ fault = "none"
    /\ LET r == hashtable_get(table, heap, key)
       IN  IF r.fault THEN Faulted(Call("get", key, NULL, NULL, <<>>))
           ELSE Queried(Call("get", key, NULL, r.ret, <<>>))

ContainsKey(key) ==
    /\ fault = "none"
    /\ LET r == hashtable_contains_key(table, heap, key)
       IN  IF r.fault THEN Faulted(Call("contains_key", key, NULL, NULL, <<>>))
           ELSE Queried(Call("contains_key", key, NULL, r.ret, <<>>))

Size ==
    /\ fault = "none"
    /\ Queried(Call("size", NULL, NULL, hashtable_size(table), <<>>))

Capacity ==
    /\ fault = "none"
    /\ Queried(Call("capacity", NULL, NULL, hashtable_capacity(table), <<>>))

\* the call returns the Array (last.ret = 1, its elements in last.arr) or NULL
GetKeys(alloc_ok) ==
    /\ fault = "none"
    /\ LET r == hashtable_get_keys(table, heap, alloc_ok)
       IN  Queried(Call("get_keys", NULL, NULL, IF r.null THEN NULL ELSE 1, r.elems))

GetValues(alloc_ok) ==
    /\ fault = "none"
    /\ LET r == hashtable_get_values(table, heap, alloc_ok)
       IN  Queried(Call("get_values", NULL, NULL, IF r.null THEN NULL ELSE 1, r.elems))

\* the op of the caller only reads the key or the value it is handed
ForeachKey ==
    /\ fault = "none"
    /\ Queried(Call("foreach_key", NULL, NULL, NULL, hashtable_foreach_key(table, heap)))

ForeachValue ==
    /\ fault = "none"
    /\ Queried(Call("foreach_value", NULL, NULL, NULL, hashtable_foreach_value(table, heap)))

\* hashtable_iter_init on a HashTableIter the caller has just declared: its
\* next_entry field holds whatever was there
IterInit(held) ==
    /\ fault = "none"
    /\ iter' = hashtable_iter_init(held, table)
    /\ pass' = [active |-> TRUE, removable |-> FALSE, yielded |-> <<>>,
                start |-> Traverse(table, heap, 0)]
    /\ last' = Call("iter_init", NULL, NULL, NULL, <<>>)
    /\ UNCHANGED <<table, heap, amap, fault>>

IterHasNext ==
    /\ fault = "none"
    /\ pass.active
    /\ last' = Call("iter_has_next", NULL, NULL, hashtable_iter_has_next(iter), <<>>)
    /\ UNCHANGED <<table, heap, iter, pass, amap, fault>>

\* the caller advances only after hashtable_iter_has_next returned true
IterNext ==
    /\ fault = "none"
    /\ pass.active
    /\ hashtable_iter_has_next(iter) = 1
    /\ Len(pass.yielded) < MaxAdvances
    /\ \E r \in hashtable_iter_next(iter, table, heap) :
         IF r.fault
         THEN Faulted(Call("iter_next", NULL, NULL, NULL, <<>>))
         ELSE /\ iter' = r.iter
              /\ \E ret \in r.rets :
                   /\ last' = Call("iter_next", NULL, NULL, ret, <<>>)
                   /\ pass' = [pass EXCEPT !.removable = TRUE,
                                           !.yielded = Append(pass.yielded, ret)]
              /\ UNCHANGED <<table, heap, amap, fault>>

\* the caller removes once after an advance. When prev_entry is readable
\* memory that holds no entry the key read from it is garbage: only a pass over
\* a table without entries gets there, so the removal finds nothing;
\* table->hash dereferences the garbage key when it is hash_string and may
\* fault.
IterRemove ==
    /\ fault = "none"
    /\ pass.active
    /\ pass.removable
    /\ IF iter.prev_entry \in DOMAIN heap
       THEN LET key == heap[iter.prev_entry].key
                r == hashtable_iter_remove(iter, table, heap)
            IN  IF r.fault THEN Faulted(Call("iter_remove", key, NULL, NULL, <<>>))
                ELSE /\ table' = r.table
                     /\ heap' = r.heap
                     /\ amap' = [amap EXCEPT ![key] = NULL]
                     /\ last' = Call("iter_remove", key, NULL, NULL, <<>>)
                     /\ pass' = [pass EXCEPT !.removable = FALSE]
                     /\ UNCHANGED <<iter, fault>>
       ELSE \/ /\ table.hash = "STRING_HASH"
               /\ Faulted(Call("iter_remove", NULL, NULL, NULL, <<>>))
            \/ /\ last' = Call("iter_remove", NULL, NULL, NULL, <<>>)
               /\ pass' = [pass EXCEPT !.removable = FALSE]
               /\ UNCHANGED <<table, heap, iter, amap, fault>>

Next ==
    \/ \E key \in AllKeys, val \in Vals : Add(key, val, TRUE, TRUE)
    \/ \E key \in AllKeys : Remove(key)
    \/ RemoveAll
    \/ \E key \in AllKeys : Get(key)
    \/ \E key \in AllKeys : ContainsKey(key)
    \/ Size
    \/ Capacity
    \/ GetKeys(TRUE)
    \/ GetValues(TRUE)

Spec == Init /\ [][Next]_vars

\* the callers that iterate
NextIter ==
    \/ \E key \in AllKeys, val \in Vals : Add(key, val, TRUE, TRUE)
    \/ \E key \in AllKeys : Remove(key)
    \/ RemoveAll
    \/ \E held \in HeldIters : IterInit(held)
    \/ IterHasNext
    \/ IterNext
    \/ IterRemove

SpecIter == Init /\ [][NextIter]_vars

\* the callers that use every operation, on a table of string keys or on a
\* table of pointer keys that grows at every insert
InitOps == \E conf \in {StringConf, GrowConf} : InitWith(conf, Keys)

NextOps ==
    \/ \E key \in AllKeys : Add(key, 1, TRUE, TRUE)
    \/ \E key \in AllKeys : Remove(key)
    \/ RemoveAll
    \/ \E key \in AllKeys : Get(key)
    \/ \E key \in AllKeys : ContainsKey(key)
    \/ GetKeys(TRUE)
    \/ GetValues(TRUE)
    \/ ForeachKey
    \/ ForeachValue
    \/ \E held \in HeldIters : IterInit(held)
    \/ IterHasNext
    \/ IterNext
    \/ IterRemove

SpecOps == InitOps /\ [][NextOps]_vars

\* the callers that use no NULL key
InitMap == \E conf \in Confs \cup {LoadConf} : InitWith(conf, Keys)

NextMap ==
    \/ \E key \in Keys, val \in Vals : Add(key, val, TRUE, TRUE)
    \/ \E key \in Keys : Remove(key)
    \/ RemoveAll
    \/ \E key \in Keys : Get(key)
    \/ \E key \in Keys : ContainsKey(key)
    \/ Size

SpecMap == InitMap /\ [][NextMap]_vars

\* the callers of a table whose threshold stays at 0 while it is small
InitLoad == InitWith(LoadConf, Keys)

SpecLoad == InitLoad /\ [][Next]_vars

\* a caller that fills a table made by hashtable_new with the keys of the pool,
\* one after the other in pool order, starting from any key of the pool
PoolPred(key) == IF key = PoolAddr(1) THEN PoolAddr(NumDefaultKeys) ELSE key - 8

InitDefault ==
    /\ table = hashtable_new
    /\ heap = [a \in 1..(NumDefaultKeys + 1) |-> FreeEntry]
    /\ iter = NoIter
    /\ pass = NoPass
    /\ last = Call("new", NULL, NULL, NULL, <<>>)
    /\ amap = [k \in DefaultKeys \cup {NULL} |-> NULL]
    /\ fault = "none"

AddInTurn ==
    \E key \in DefaultKeys :
        /\ amap[key] = NULL
        /\ table.size = 0 \/ amap[PoolPred(key)] # NULL
        /\ Add(key, 1 + ((key \div 8) % NumVals), TRUE, TRUE)

NextDefault ==
    \/ AddInTurn
    \/ \E key \in DefaultKeys : Get(key)
    \/ Size
    \/ Capacity

SpecDefault == InitDefault /\ [][NextDefault]_vars

\* the callers whose allocators may fail: alloc_ok tells whether mem_alloc
\* delivers the entry, calloc_ok whether mem_calloc delivers the bucket array
InitAlloc == \E conf \in {StringConf, MaxConf} : InitWith(conf, Keys)

NextAlloc ==
    \/ \E key \in AllKeys, val \in Vals, alloc_ok \in BOOLEAN, calloc_ok \in BOOLEAN :
         Add(key, val, alloc_ok, calloc_ok)
    \/ \E key \in AllKeys : Remove(key)
    \/ Size
    \/ \E alloc_ok \in BOOLEAN : GetKeys(alloc_ok)
    \/ \E alloc_ok \in BOOLEAN : GetValues(alloc_ok)

SpecAlloc == InitAlloc /\ [][NextAlloc]_vars

\* the callers that choose the load factor (0.2, 0.5, 0.75 or 1) and the
\* capacity hint of a table of pointer keys; every allocation succeeds
LoadFactors == {<<1, 5>>, <<1, 2>>, <<3, 4>>, <<1, 1>>}

InitThreshold ==
    \E load_factor \in LoadFactors, hint \in 1..MaxInitialCapacity :
        InitWith([PointerConf EXCEPT !.initial_capacity = hint,
                                     !.load_factor = load_factor], Keys)

NextThreshold ==
    \/ \E key \in AllKeys, val \in Vals : Add(key, val, TRUE, TRUE)
    \/ \E key \in AllKeys : Remove(key)
    \/ Size

SpecThreshold == InitThreshold /\ [][NextThreshold]_vars

\* the callers of the string digest: NUL-terminated strings of ASCII bytes
\* ('a', 'b', 'e') and of a byte that is negative as a char (0xc8), any key
\* length argument and seed
Bytes == {97, 98, 101, 200}

Strings == UNION {[1..n -> Bytes] : n \in 0..MaxStrLen}

HashString(str, len, seed) ==
    /\ fault = "none"
    /\ last' = Call("hash_string", NULL, NULL, hashtable_hash_string(str, len, seed),
                    <<str, len, seed>>)
    /\ UNCHANGED <<table, heap, iter, pass, amap, fault>>

NextDigest ==
    \E str \in Strings, len \in {KEY_LENGTH_VARIABLE, KEY_LENGTH_POINTER}, seed \in {0, 7} :
        HashString(str, len, seed)

SpecDigest == InitWith(StringConf, Keys) /\ [][NextDigest]_vars

\* the callers of the pointer digest: NULL, addresses of the pool, addresses
\* that are no entry and no string, and addresses that differ from them in
\* bit 8, bit 10, bit 12 or bit 20 only; any key length and seed
Addresses == {0, 8, 24, 255, 8 + 256, 8 + 1024, 24 + 1024, 255 + 4096, 8 + 4096, 8 + 1048576}

PtrLens == (-5)..MaxPtrLen

\* the caller has chosen the arguments of its call
InitPtrDigest ==
    \E key \in Addresses, len \in PtrLens, seed \in {0, 7} :
        /\ table = hashtable_new_conf(PointerConf)
        /\ heap = [a \in 1..(NumKeys + 1) |-> FreeEntry]
        /\ iter = NoIter
        /\ pass = NoPass
        /\ last = Call("hash_ptr_args", key, NULL, NULL, <<len, seed>>)
        /\ amap = [k \in AllKeys |-> NULL]
        /\ fault = "none"

HashPtr ==
    /\ fault = "none"
    /\ last.op = "hash_ptr_args"
    /\ last' = Call("hash_ptr", last.key, NULL,
                    hashtable_hash_ptr(last.key, last.arr[1], last.arr[2]), last.arr)
    /\ UNCHANGED <<table, heap, iter, pass, amap, fault>>

NextPtrDigest == HashPtr

SpecPtrDigest == InitPtrDigest /\ [][NextPtrDigest]_vars

\* the callers that create a table with any capacity hint, with allocators
\* that may fail during creation, and use the table they were given
Hints == 0..(MAX_POW_TWO + NumHintsOver)

InitNew ==
    \E conf \in Confs, hint \in Hints, table_ok \in BOOLEAN, buckets_ok \in BOOLEAN :
        /\ table = NewConf([conf EXCEPT !.initial_capacity = hint], table_ok, buckets_ok)
        /\ heap = [a \in 1..(NumKeys + 1) |-> FreeEntry]
        /\ iter = NoIter
        /\ pass = NoPass
        /\ last = Call("new_conf", NULL, NULL, NULL, <<hint, table_ok, buckets_ok>>)
        /\ amap = [k \in AllKeys |-> NULL]
        /\ fault = "none"

\* hashtable_add on the table hashtable_new_conf returned: it reads
\* table->buckets[i], a NULL dereference when the bucket array is missing
AddNew(key, val) ==
    /\ table # NoTable
    /\ IF table.buckets = NoBuckets
       THEN fault = "none" /\ Faulted(Call("add", key, val, NULL, <<>>))
       ELSE Add(key, val, TRUE, TRUE)

CapacityNew == table # NoTable /\ Capacity

SizeNew == table # NoTable /\ Size

\* hashtable_destroy on the table hashtable_new_conf returned; the caller
\* has no table afterwards
Destroy ==
    /\ table # NoTable
    /\ fault = "none"
    /\ LET r == hashtable_destroy(table, heap)
       IN  IF r.fault THEN Faulted(Call("destroy", NULL, NULL, NULL, <<>>))
           ELSE Mutated(r, Call("destroy", NULL, NULL, NULL, <<>>),
                        [k \in DOMAIN amap |-> NULL])

NextNew ==
    \/ \E key \in Keys : AddNew(key, 1)
    \/ CapacityNew
    \/ SizeNew
    \/ Destroy

SpecNew == InitNew /\ [][NextNew]_vars

(***************************************************************************)
(* Properties.                                                             *)
(***************************************************************************)
Flag(b) == IF b THEN 1 ELSE 0

\* the call whose outcome is r returned v
Returns(r, v) == ~r.fault /\ r.ret = v

\* the keys the successful calls so far have left mapped
Mapped == {k \in DOMAIN amap : amap[k] # NULL}

\* the entries linked into the table
Entries(t, h) == {Traverse(t, h, 0)[j] : j \in 1..Len(Traverse(t, h, 0))}

\* the (key, value) pairs of the entries with an ordinary key
OrdinaryEntries(t, h) ==
    {<<h[e].key, h[e].value>> : e \in {x \in Entries(t, h) : h[x].key # NULL}}

\* C1 (map refinement): when only non-NULL keys are used and no allocation
\* fails, after any sequence of hashtable_add, hashtable_remove and
\* hashtable_remove_all no call faults, hashtable_get(k) returns the value of
\* the latest add of k that was not removed since (NULL otherwise),
\* hashtable_contains_key(k) is true exactly for those keys and hashtable_size
\* is their number, in every state and for the calls actually made.
MapRefinement ==
    /\ fault = "none"
    /\ \A k \in Keys :
         /\ Returns(hashtable_get(table, heap, k), amap[k])
         /\ Returns(hashtable_contains_key(table, heap, k), Flag(amap[k] # NULL))
    /\ hashtable_size(table) = Cardinality(Mapped)
    /\ last.op = "get" => last.ret = amap[last.key]
    /\ last.op = "contains_key" => last.ret = Flag(amap[last.key] # NULL)
    /\ last.op = "size" => last.ret = Cardinality(Mapped)

\* C1 happens: a lookup finds a value in a table that has grown to capacity 8
\* or more, holds a chain of two entries and lacks one of the keys
MapRefinementWitness ==
    /\ last.op = "get"
    /\ last.ret = 2
    /\ table.capacity >= 8
    /\ \E i \in 0..(table.capacity - 1) : Len(Chain(heap, Bucket(table, i))) >= 2
    /\ \E k \in Keys : amap[k] = NULL

\* C2 (insert twice): when hashtable_add(k, v1) has returned true and the next
\* call is hashtable_add(k, v2), the second call returns without a fault,
\* leaves the size as it was, and hashtable_get(k) then returns v2.
InsertTwice ==
    [][(fault = "none" /\ last.op = "add" /\ last.ret = 1
            /\ last'.op = "add" /\ last'.key = last.key)
        => /\ fault' = "none"
           /\ last'.ret = 1
           /\ table'.size = table.size
           /\ Returns(hashtable_get(table', heap', last'.key), last'.val)]_vars

\* C3 (growth): in a table made by hashtable_new the threshold is 12 at
\* capacity 16, the capacity is 16 while at most 12 distinct keys have been
\* inserted, it is 32 once a 13th has been, and every inserted key is looked
\* up with the value it was inserted with.
GrowthProperty ==
    /\ fault = "none"
    /\ table.capacity = 16 => table.threshold = 12
    /\ Cardinality(Mapped) <= 12 => table.capacity = 16
    /\ Cardinality(Mapped) >= 13 => table.capacity = 32
    /\ table.size = Cardinality(Mapped)
    /\ \A k \in DefaultKeys : Returns(hashtable_get(table, heap, k), amap[k])
    /\ last.op = "get" => last.ret = amap[last.key]
    /\ last.op = "capacity" => last.ret = IF Cardinality(Mapped) <= 12 THEN 16 ELSE 32

\* C3 happens: 13 keys are in, the capacity is 32 and a lookup has just
\* returned the value of one of them
GrowthPropertyWitness ==
    /\ Cardinality(Mapped) = 13
    /\ table.capacity = 32
    /\ last.op = "get"
    /\ last.ret # NULL
    /\ last.ret = amap[last.key]

\* C4 (remove of a present key): hashtable_remove(k) of a mapped key returns
\* without a fault the value last inserted for k and lowers the size by one;
\* afterwards every other mapped key is still looked up with its value,
\* hashtable_contains_key(k) is false and hashtable_get(k) is NULL.
RemovePresent ==
    [][(fault = "none" /\ last'.op = "remove" /\ amap[last'.key] # NULL)
        => /\ fault' = "none"
           /\ last'.ret = amap[last'.key]
           /\ table'.size = table.size - 1
           /\ \A k \in Mapped \ {last'.key} :
                Returns(hashtable_get(table', heap', k), amap[k])
           /\ Returns(hashtable_contains_key(table', heap', last'.key), 0)
           /\ Returns(hashtable_get(table', heap', last'.key), NULL)]_vars

\* C5 (remove of a key that is not present, the NULL key included):
\* hashtable_remove(k) returns NULL without a fault and leaves the table
\* structure and every chain as they were.
RemoveAbsent ==
    [][(fault = "none" /\ last'.op = "remove" /\ amap[last'.key] = NULL)
        => /\ fault' = "none"
           /\ last'.ret = NULL
           /\ table' = table
           /\ heap' = heap]_vars

\* C6 (remove all): hashtable_remove_all leaves size 0 and every bucket head
\* NULL, keeps capacity and threshold, and afterwards hashtable_contains_key
\* is false for every key that was mapped.
RemoveAllEmpties ==
    [][(fault = "none" /\ last'.op = "remove_all")
        => /\ fault' = "none"
           /\ table'.size = 0
           /\ \A i \in 0..(table'.capacity - 1) : Bucket(table', i) = NULL
           /\ table'.capacity = table.capacity
           /\ table'.threshold = table.threshold
           /\ \A k \in Mapped :
                Returns(hashtable_contains_key(table', heap', k), 0)]_vars

\* C7 (iteration completeness), for a pass over a table that holds at least
\* one entry and is not changed during the pass: every advance returns an
\* entry of the table that no earlier advance of the pass returned, and when
\* hashtable_iter_has_next turns false the advances were exactly size many.
IterationComplete ==
    (fault = "none" /\ pass.active /\ pass.start # <<>>
        /\ Traverse(table, heap, 0) = pass.start)
    => /\ \A j \in 1..Len(pass.yielded) :
            /\ pass.yielded[j] \in Entries(table, heap)
            /\ \A i \in 1..(j - 1) : pass.yielded[i] # pass.yielded[j]
       /\ hashtable_iter_has_next(iter) = 0 => Len(pass.yielded) = table.size

\* C8 (contains the NULL key): a call hashtable_contains_key(NULL) returns
\* without a fault, true exactly when the NULL key is mapped.
ContainsNullKey ==
    (last.op = "contains_key" /\ last.key = NULL)
    => (fault = "none" /\ last.ret = Flag(amap[NULL] # NULL))

\* C9 (NULL key round trip): hashtable_add(NULL, x) while the NULL key is not
\* mapped returns true and raises the size by one; while it is mapped it
\* returns true and keeps the size; after either hashtable_get(NULL) is x.
\* hashtable_remove(NULL) while it is mapped returns the current value and
\* lowers the size by one, and hashtable_get(NULL) is NULL afterwards.  A
\* hashtable_get(NULL) call returns the current value.  None of these calls
\* faults or changes the key or the value of an entry with an ordinary key.
NullKeyRoundTrip ==
    [][(fault = "none" /\ last'.key = NULL /\ last'.op \in {"add", "remove", "get"})
        => /\ fault' = "none"
           /\ OrdinaryEntries(table', heap') = OrdinaryEntries(table, heap)
           /\ (last'.op = "add" /\ amap[NULL] = NULL) =>
                /\ last'.ret = 1
                /\ table'.size = table.size + 1
                /\ Returns(hashtable_get(table', heap', NULL), last'.val)
           /\ (last'.op = "add" /\ amap[NULL] # NULL) =>
                /\ last'.ret = 1
                /\ table'.size = table.size
                /\ Returns(hashtable_get(table', heap', NULL), last'.val)
           /\ (last'.op = "remove" /\ amap[NULL] # NULL) =>
                /\ last'.ret = amap[NULL]
                /\ table'.size = table.size - 1
                /\ Returns(hashtable_get(table', heap', NULL), NULL)
           /\ last'.op = "get" => last'.ret = amap[NULL]]_vars

\* C9 happens: the NULL key, added and then given a second value, has just
\* been removed from a bucket 0 that still holds an ordinary entry
NullKeyRoundTripWitness ==
    /\ last.op = "remove"
    /\ last.key = NULL
    /\ last.ret = 2
    /\ amap[NULL] = NULL
    /\ Bucket(table, 0) # NULL

\* C10 (export round trip): the Arrays hashtable_get_keys and
\* hashtable_get_values deliver each hold size elements, and for every position
\* j hashtable_get of the j-th key returns, without a fault, the j-th value.
ExportRoundTrip ==
    fault = "none"
    => /\ Len(hashtable_get_keys(table, heap, TRUE).elems) = table.size
       /\ Len(hashtable_get_values(table, heap, TRUE).elems) = table.size
       /\ \A j \in 1..Len(hashtable_get_keys(table, heap, TRUE).elems) :
            Returns(hashtable_get(table, heap, hashtable_get_keys(table, heap, TRUE).elems[j]),
                    hashtable_get_values(table, heap, TRUE).elems[j])
       /\ last.op = "get_keys" => Len(last.arr) = table.size
       /\ last.op = "get_values" => Len(last.arr) = table.size

\* the least power of two that is >= n (n <= 2^30)
LeastPow2(n) ==
    CHOOSE p \in {Pow2(e) : e \in 0..30} :
        p >= n /\ \A q \in {Pow2(e) : e \in 0..30} : q >= n => p <= q

\* C11 as amended (capacity hints): a table created with hint n has capacity
\* 2 for n = 0, the least power of two >= n for 1 <= n < MAX_POW_TWO (so hint
\* 1 gives capacity 1), and MAX_POW_TWO for n >= MAX_POW_TWO.
RoundedCapacity ==
    (last.op = "new_conf" /\ table # NoTable)
    => table.capacity = (IF last.arr[1] >= MAX_POW_TWO THEN MAX_POW_TWO
                         ELSE IF last.arr[1] = 0 THEN 2
                         ELSE LeastPow2(last.arr[1]))

\* C11 happens: a table was created with a hint that is not a power of two
\* and got the next power of two
RoundedCapacityWitness ==
    /\ last.op = "new_conf"
    /\ table # NoTable
    /\ last.arr[1] = 5
    /\ table.capacity = 8

\* C11 as stated: the capacity is the least power of two that is >= n and
\* >= 2 (hints 0, 1 and 2 all give 2), MAX_POW_TWO for hints at or above it.
RoundedCapacityAtLeastTwo ==
    (last.op = "new_conf" /\ table # NoTable)
    => table.capacity = (IF last.arr[1] >= MAX_POW_TWO THEN MAX_POW_TWO
                         ELSE IF last.arr[1] <= 2 THEN 2
                         ELSE LeastPow2(last.arr[1]))

\* C12 (failed insert is atomic): when hashtable_add returns false (the entry
\* could not be allocated), the table structure (size, capacity, threshold,
\* bucket array) and every chain are as before the call, for ordinary keys
\* and for the NULL key.
FailedInsertAtomic ==
    [][(fault = "none" /\ fault' = "none" /\ last'.op = "add" /\ last'.ret = 0)
        => (table' = table /\ heap' = heap)]_vars

\* C13 (creation failure): hashtable_new_conf returns no table when the
\* allocation of the table structure or of the bucket array fails; a table
\* it returns has its bucket array.
CreateReportsFailure ==
    /\ table # NoTable => table.buckets # NoBuckets
    /\ (last.op = "new_conf" /\ (~last.arr[2] \/ ~last.arr[3])) => table = NoTable

\* C14 (failed growth does not abort the insert): when hashtable_add is
\* called with size >= threshold and the growth fails (mem_calloc delivers no
\* bucket array, or the capacity is MAX_POW_TWO) while the entry allocation
\* succeeds, the call returns true without a fault, capacity, threshold and
\* the length of the bucket array are unchanged, every other mapped key is
\* looked up with its value, and the key is looked up with the new value.
FailedGrowthInsert ==
    [][(fault = "none" /\ last'.op = "add"
            /\ table.size >= table.threshold
            /\ (~last'.arr[2] \/ table.capacity = MAX_POW_TWO)
            /\ last'.arr[1])
        => /\ fault' = "none"
           /\ last'.ret = 1
           /\ table'.capacity = table.capacity
           /\ table'.threshold = table.threshold
           /\ Len(table'.buckets) = Len(table.buckets)
           /\ \A k \in Mapped \ {last'.key} :
                Returns(hashtable_get(table', heap', k), amap[k])
           /\ Returns(hashtable_get(table', heap', last'.key), last'.val)]_vars

\* h_n of the recurrence h_0 = 5381, h_i = (h_(i-1) * 33) XOR b_i over the
\* bytes b_1..b_n of str, modulo 2^64
RECURSIVE Djb2Xor(_, _)
Djb2Xor(str, n) ==
    IF n = 0 THEN WordOf(5381)
    ELSE WordXor(WordMul(Djb2Xor(str, n - 1), WordOf(33)), WordOf(str[n]))

\* C15 (string digest): hashtable_hash_string of the NUL-terminated string
\* with bytes b_1..b_n returns h_n, where h_0 = 5381 and h_i = (h_(i-1) * 33)
\* XOR b_i, whatever the len and seed arguments.
StringDigest ==
    last.op = "hash_string" => last.ret = Djb2Xor(last.arr[1], Len(last.arr[1]))

\* C16 (iterator on an empty table): hashtable_iter_has_next called right
\* after hashtable_iter_init on a table of size 0 returns false, whatever the
\* iterator structure held before.
EmptyIterExhausted ==
    (last.op = "iter_has_next" /\ pass.active /\ pass.yielded = <<>> /\ table.size = 0)
        => last.ret = 0

\* C17 as stated (null-key insert and growth): hashtable_add with the NULL key
\* leaves capacity, threshold and the bucket array's length as they were, even
\* when size >= threshold.
NullInsertNoGrowth ==
    [][(fault = "none" /\ last'.op = "add" /\ last'.key = NULL)
        => /\ table'.capacity = table.capacity
           /\ table'.threshold = table.threshold
           /\ Len(table'.buckets) = Len(table.buckets)]_vars

\* C17 (null-key insert and growth): hashtable_add with the NULL key never
\* faults and goes through the same growth check as any insert: when size >=
\* threshold, capacity is below the maximum and mem_calloc succeeds, capacity
\* doubles and threshold is recomputed; otherwise both stay.  When the call
\* succeeds the NULL-key entry is in the chain of bucket 0 with cached hash 0
\* and the value given.
NullInsertGrows ==
    [][(fault = "none" /\ last'.op = "add" /\ last'.key = NULL)
        => LET grows == /\ table.size >= table.threshold
                        /\ table.capacity < MAX_POW_TWO
                        /\ last'.arr[2]
               capacity == IF grows THEN 2 * table.capacity ELSE table.capacity
           IN  /\ fault' = "none"
               /\ table'.capacity = capacity
               /\ Len(table'.buckets) = capacity
               /\ table'.threshold = IF grows THEN Threshold(capacity, table.load_factor)
                                     ELSE table.threshold
               /\ last'.ret = 1 =>
                    LET chain == Chain(heap', Bucket(table', 0))
                    IN  \E j \in DOMAIN chain :
                            /\ heap'[chain[j]].key = NULL
                            /\ heap'[chain[j]].hash = WordOf(0)
                            /\ heap'[chain[j]].value = last'.val]_vars

\* a NULL-key insert stored its entry in a table grown to twice the initial
\* capacity of the string configuration, next to one ordinary entry
NullInsertGrowsWitness ==
    /\ fault = "none"
    /\ last.op = "add" /\ last.key = NULL /\ last.ret = 1
    /\ table.key_cmp = StringConf.key_compare
    /\ table.capacity = 2 * StringConf.initial_capacity
    /\ table.size = 2
    /\ get_null_key(table, heap).ret = last.val

\* C18 as stated (size within threshold): for every load factor in (0, 1] and
\* every initial capacity, while no allocation failed and capacity is below
\* the maximum, size <= threshold after each operation.
SizeWithinThreshold ==
    (fault = "none" /\ table.capacity < MAX_POW_TWO) => table.size <= table.threshold

\* C18 (size within threshold): for every load factor in [1/2, 1] and every
\* initial capacity, while no allocation failed and capacity is below the
\* maximum, size <= threshold after each operation.
SizeWithinThresholdHalf ==
    (/\ fault = "none"
     /\ table.capacity < MAX_POW_TWO
     /\ 2 * table.load_factor[1] >= table.load_factor[2])
        => table.size <= table.threshold

\* an insert filled a table of load factor at least 1/2, grown at least once,
\* up to its threshold
SizeWithinThresholdWitness ==
    /\ fault = "none"
    /\ last.op = "add" /\ last.ret = 1
    /\ 2 * table.load_factor[1] >= table.load_factor[2]
    /\ table.capacity > MaxInitialCapacity
    /\ table.capacity < MAX_POW_TWO
    /\ table.size = table.threshold

\* the entries in the chain of bucket i
InBucket(t, h, i) == {Chain(h, Bucket(t, i))[j] : j \in 1..Len(Chain(h, Bucket(t, i)))}

\* C19 (placement invariant): in every reachable state the bucket array has
\* capacity slots, each entry in the chain of bucket i has cached hash &
\* (capacity - 1) = i, and at most one entry has the NULL key; that entry has
\* cached hash 0, is in the chain of bucket 0 and is the one get_null_key finds.
Placement ==
    /\ Len(table.buckets) = table.capacity
    /\ \A i \in 0..(table.capacity - 1) : \A e \in InBucket(table, heap, i) :
           BitAnd(WordLow(heap[e].hash), table.capacity - 1) = i
    /\ Cardinality({e \in Entries(table, heap) : heap[e].key = NULL}) <= 1
    /\ \A e \in Entries(table, heap) :
           heap[e].key = NULL =>
               /\ heap[e].hash = WordOf(0)
               /\ e \in InBucket(table, heap, 0)
               /\ get_null_key(table, heap).ret = heap[e].value

\* a table grown twice holds the NULL-key entry and an ordinary entry outside
\* bucket 0
PlacementWitness ==
    /\ fault = "none"
    /\ table.capacity >= 8
    /\ \E e \in InBucket(table, heap, 0) : heap[e].key = NULL
    /\ \E i \in 1..(table.capacity - 1) : InBucket(table, heap, i) # {}

\* the entries of the table whose key is not key, as (address, key, value,
\* cached hash)
EntriesBut(t, h, key) ==
    {<<e, h[e].key, h[e].value, h[e].hash>> : e \in {x \in Entries(t, h) : h[x].key # key}}

\* C20 (growth relocates): a hashtable_add that grew the table leaves capacity
\* at exactly twice the old capacity and threshold at new capacity x
\* load_factor truncated; the entries other than the one of the inserted key
\* are the same nodes with the same key, value and cached hash, each linked
\* once and in bucket cached hash & (new capacity - 1); size changed only by
\* the insert itself.
GrowthRelocates ==
    [][(fault = "none" /\ fault' = "none" /\ last'.op = "add"
            /\ table'.capacity # table.capacity)
        => /\ table'.capacity = 2 * table.capacity
           /\ Len(table'.buckets) = 2 * table.capacity
           /\ table'.threshold =
                  (2 * table.capacity * table.load_factor[1]) \div table.load_factor[2]
           /\ EntriesBut(table', heap', last'.key) = EntriesBut(table, heap, last'.key)
           /\ Len(Traverse(table', heap', 0)) = Cardinality(Entries(table', heap'))
           /\ table'.size = Cardinality(Entries(table', heap'))
           /\ table.size = Cardinality(Entries(table, heap))
           /\ table'.size = table.size +
                  Flag(last'.ret = 1 /\ \A e \in Entries(table, heap) : heap[e].key # last'.key)
           /\ \A i \in 0..(table'.capacity - 1) : \A e \in InBucket(table', heap', i) :
                  BitAnd(WordLow(heap'[e].hash), table'.capacity - 1) = i]_vars

\* the third insert into a table of load factor 0.2 created with capacity 1:
\* each of the three inserts grew the table (its threshold is 0 up to capacity
\* 4), the last one from capacity 4 to 8 with two entries of different values
\* to relocate
GrowthRelocatesWitness ==
    /\ fault = "none"
    /\ last.op = "add" /\ last.ret = 1
    /\ table.load_factor = <<1, 5>>
    /\ table.capacity = 8
    /\ table.size = 3
    /\ \E e1, e2 \in Entries(table, heap) :
           /\ heap[e1].key # last.key
           /\ heap[e2].key # last.key
           /\ heap[e1].value # heap[e2].value

\* the elements of a sequence
Range(seq) == {seq[j] : j \in 1..Len(seq)}

\* C21 (removal through the iterator), for a pass over a table that held
\* entries at its start: hashtable_iter_remove called once after an advance
\* removes exactly the entry that advance returned (size goes down by one, its
\* key is no longer in the table, every other entry keeps its key and value)
\* and leaves the entry queued in next_entry linked in the table; every
\* advance, removals or not, returns an entry the pass started with that no
\* earlier advance returned, the entries not yet returned stay in the table,
\* and the pass ends after as many advances as the table held entries at its
\* start.
IterRemoveExact ==
    [][/\ (fault = "none" /\ last'.op = "iter_remove" /\ pass.start # <<>>) =>
            LET y == pass.yielded[Len(pass.yielded)]
            IN  /\ fault' = "none"
                /\ y \in Entries(table, heap)
                /\ Entries(table', heap') = Entries(table, heap) \ {y}
                /\ table'.size = table.size - 1
                /\ \A e \in Entries(table', heap') :
                       /\ heap'[e].key # last'.key
                       /\ heap'[e].key = heap[e].key
                       /\ heap'[e].value = heap[e].value
                /\ iter'.next_entry # NULL => iter'.next_entry \in Entries(table', heap')
                /\ (Range(pass.start) \ Range(pass.yielded)) \subseteq Entries(table', heap')
       /\ (fault = "none" /\ last'.op = "iter_next" /\ pass.start # <<>>) =>
            /\ fault' = "none"
            /\ last'.ret \in Range(pass.start) \ Range(pass.yielded)
            /\ hashtable_iter_has_next(iter') = 0 => Len(pass'.yielded) = Len(pass.start)]_vars

\* n is a power of two: a single bit is set
PowerOfTwo(n) == n >= 1 /\ BitAnd(n, n - 1) = 0

\* C22 (capacity only grows): capacity is a power of two and the length of the
\* bucket array before and after every step; a step changes it only by doubling it, and
\* only a hashtable_add does; every other operation (remove, remove_all, get,
\* contains_key, get_keys, get_values, foreach, the iterator's) leaves
\* capacity, threshold and the bucket array's length as they were.
CapacityOnlyDoubles ==
    [][/\ PowerOfTwo(table.capacity)
       /\ PowerOfTwo(table'.capacity)
       /\ Len(table.buckets) = table.capacity
       /\ Len(table'.buckets) = table'.capacity
       /\ table'.capacity \in {table.capacity, 2 * table.capacity}
       /\ table'.capacity # table.capacity => last'.op = "add"
       /\ last'.op # "add" =>
             /\ table'.capacity = table.capacity
             /\ table'.threshold = table.threshold
             /\ Len(table'.buckets) = Len(table.buckets)]_vars

\* the table of one bucket was doubled five times, up to the maximum capacity,
\* and an entry was then removed through the iterator
CapacityOnlyDoublesWitness ==
    /\ fault = "none"
    /\ table.capacity = MAX_POW_TWO
    /\ table.load_factor = GrowConf.load_factor
    /\ last.op = "iter_remove"

\* the table a call scans: hashtable_add scans after its growth check
Scanned(op, calloc_ok) ==
    IF op = "add" /\ table.size >= table.threshold
    THEN resize(table, heap, 2 * table.capacity, calloc_ok)
    ELSE [table |-> table, heap |-> heap, ret |-> 0]

\* C23 (comparator and the NULL key): a hashtable_add, hashtable_get,
\* hashtable_remove or hashtable_contains_key of an ordinary key does not
\* fault and hands no NULL key to the comparator, also when the NULL-key entry
\* is in the chain it scans.
ComparatorNeverNull ==
    [][(/\ fault = "none"
        /\ last'.op \in {"add", "get", "remove", "contains_key"}
        /\ last'.key # NULL)
        => LET s == Scanned(last'.op, last'.op = "add" /\ last'.arr[2])
               chain == Bucket(s.table, get_table_index(s.table, last'.key))
           IN  /\ fault' = "none"
               /\ NULL \notin Range(ComparedKeys(s.table, s.heap, chain, last'.key))]_vars

\* the first entries (at most fuel) met by following next from entry; the walk
\* stops at NULL and at a pointer that is no entry
RECURSIVE Walk(_, _, _)
Walk(h, entry, fuel) ==
    IF entry = NULL \/ fuel = 0 THEN <<>>
    ELSE IF entry \notin DOMAIN h THEN <<entry>>
    ELSE <<entry>> \o Walk(h, h[entry].next, fuel - 1)

\* the walks from every bucket head, one step longer than the heap has entries
Walks == [i \in 0..(table.capacity - 1) |->
             Walk(heap, Bucket(table, i), Cardinality(DOMAIN heap) + 1)]

\* the allocated entries
Live == {a \in DOMAIN heap : heap[a].live}

\* C24 (structure): every chain ends (it is finite and acyclic) and holds
\* allocated entries only; every allocated entry is met exactly once, in one
\* chain; no two entries have the same key or keys the comparator calls equal;
\* size is the number of entries reachable from the bucket array.
Structure ==
    /\ \A i \in DOMAIN Walks :
           /\ Len(Walks[i]) <= Cardinality(DOMAIN heap)
           /\ Range(Walks[i]) \subseteq Live
    /\ \A a \in Live :
           Cardinality({p \in {<<i, j>> : i \in DOMAIN Walks, j \in 1..(Cardinality(DOMAIN heap) + 1)} :
                           p[2] <= Len(Walks[p[1]]) /\ Walks[p[1]][p[2]] = a}) = 1
    /\ \A a, b \in Live :
           a # b => /\ heap[a].key # heap[b].key
                    /\ (heap[a].key # NULL /\ heap[b].key # NULL)
                           => ~key_cmp(table, heap[a].key, heap[b].key)
    /\ table.size >= 0
    /\ table.size = Cardinality(UNION {Range(Walks[i]) : i \in DOMAIN Walks})

\* a removal through the iterator left a table of three entries, two of them
\* in one chain
StructureWitness ==
    /\ fault = "none"
    /\ last.op = "iter_remove"
    /\ table.size = 3
    /\ \E i \in DOMAIN Walks : Len(Walks[i]) >= 2

\* the number of low address bits the blocks of a key of length len cover
PtrBits(len) == IF len < 4 THEN 0 ELSE 8 + 2 * ((len \div 4) - 1)

\* C25 (pointer digest): hashtable_hash_ptr returns without a fault for any
\* address (it does not dereference it), and every address that agrees with
\* the key on the low 8 + 2 * (len / 4 - 1) bits gets the same digest for the
\* same len and seed; for len < 4 every address does.
PtrDigestLowBits ==
    last.op = "hash_ptr" =>
        /\ fault = "none"
        /\ \A a \in Addresses :
               (a % Pow2(PtrBits(last.arr[1])) = last.key % Pow2(PtrBits(last.arr[1])))
                   => hashtable_hash_ptr(a, last.arr[1], last.arr[2]) = last.ret

\* the digest of an 8-byte key at an address that no entry and no string
\* occupies and that shares its low 10 bits with an address of the pool
PtrDigestLowBitsWitness ==
    /\ last.op = "hash_ptr"
    /\ last.arr[1] = KEY_LENGTH_POINTER
    /\ last.key = 8 + 1024
    /\ last.ret = hashtable_hash_ptr(8, KEY_LENGTH_POINTER, last.arr[2])
    /\ last.ret # hashtable_hash_ptr(8 + 256, KEY_LENGTH_POINTER, last.arr[2])
====
